---- MODULE Spec2Model ----
(***************************************************************************)
(* A model of the two utilities of iiab-lokole-tests:                      *)
(*   .github/scripts/generate-matrix.py      (the matrix generator)        *)
(*   scripts/monitoring/monitor_installation.py  (the installation monitor)*)
(* The two programs do not interact.  SpecGen runs the generator, SpecMon  *)
(* runs the monitor; each leaves the other program's variables alone.      *)
(***************************************************************************)
EXTENDS Integers, Sequences, FiniteSets, TLC

VARIABLES
    \* ---- generate-matrix.py ----
    gpc,               \* position of the generator process
    file_exists,       \* config_file.exists()
    yaml_ok,           \* yaml.safe_load parses the file
    config,            \* the parsed configuration document (a dict)
    include_upcoming,  \* args.include_upcoming
    matrix,            \* the list generate_matrix builds
    idx,               \* position of the running for loop in its list
    gen_stdout,        \* documents printed on standard output
    gen_stderr,        \* messages printed on standard error
    gen_exit,          \* exit status of the generator (NotExited while it runs)
    \* ---- monitor_installation.py ----
    pc,                    \* position of the monitor process
    poll_count,
    installation_complete,
    result,                \* what the last run_command returned
    process_running,       \* what the last check_process_running returned
    vm_status,             \* what the last get_vm_status returned
    found_at,              \* poll number of the successful completion check, 0 if none
    n_checks,              \* completion-marker checks issued
    n_proc_checks,         \* process checks issued
    n_vm_queries,          \* VM-status queries issued
    sleeps,                \* sleeps that have elapsed
    slept,                 \* time units spent in time.sleep
    log_len,               \* lines in the session log file
    out_len,               \* lines on the monitor's standard output
    last_line,             \* the last line printed
    state,                 \* POLLING, COMPLETE or TIMED_OUT
    interrupted_at,        \* where main was when a KeyboardInterrupt ended it, "" if none
    crashed_at,            \* where main was when an uncaught error ended it, "" if none
    exit_code              \* exit status of the monitor (NotExited while it runs)

gvars == <<gpc, file_exists, yaml_ok, config, include_upcoming, matrix, idx,
           gen_stdout, gen_stderr, gen_exit>>
mvars == <<pc, poll_count, installation_complete, result, process_running,
           vm_status, found_at, n_checks, n_proc_checks, n_vm_queries, sleeps,
           slept, log_len, out_len, last_line, state, interrupted_at,
           crashed_at, exit_code>>
vars == <<gvars, mvars>>

NotExited == -1

(***************************************************************************)
(* Bounds of the model.                                                    *)
(***************************************************************************)
MaxLen == 2        \* longest supported_versions / upcoming_versions list

(***************************************************************************)
(* generate-matrix.py                                                      *)
(***************************************************************************)

\* A version descriptor is a dict: a function from the keys it has.
\* dict.get(key, default)
Get(d, key, default) == IF key \in DOMAIN d THEN d[key] ELSE default

\* The descriptors configurations are built from.
Descriptors ==
    { \* active, no lts label, no override
      [version |-> "22.04", image_offer |-> "o1", image_sku |-> "s1",
       python |-> "3.10", status |-> "active"],
      \* not active, explicit lts label
      [version |-> "20.04", lts |-> "focal", image_offer |-> "o2",
       image_sku |-> "s2", python |-> "3.8", status |-> "maintenance"],
      \* no status, with a pre-release image override
      [version |-> "26.04", image_offer |-> "o3", image_sku |-> "s3",
       python |-> "3.13",
       pre_release_image |-> [offer |-> "daily", sku |-> "d26"]],
      \* override only: no standard image fields
      [version |-> "26.10", lts |-> "next", python |-> "3.14",
       status |-> "active",
       pre_release_image |-> [offer |-> "daily", sku |-> "d2610"]],
      \* malformed: no python
      [version |-> "24.04", image_offer |-> "o4", image_sku |-> "s4",
       status |-> "active"],
      \* malformed override: no sku in it
      [version |-> "25.10", image_offer |-> "o5", image_sku |-> "s5",
       python |-> "3.13", status |-> "active",
       pre_release_image |-> [offer |-> "daily"]] }

DescriptorLists == UNION { [1..n -> Descriptors] : n \in 0..MaxLen }

\* The configuration documents: supported_versions and upcoming_versions are
\* each present or not.
Configs ==
    { [supported_versions |-> s, upcoming_versions |-> u] :
          s \in DescriptorLists, u \in DescriptorLists }
    \cup { [supported_versions |-> s] : s \in DescriptorLists }
    \cup { [upcoming_versions |-> u] : u \in DescriptorLists }
    \cup { [unrelated |-> <<>>] }

NoConfig == [unloaded |-> <<>>]

\* The keys an entry of the supported loop subscripts, in evaluation order.
SupportedKeys == <<"version", "image_offer", "image_sku", "python">>

\* The keys an entry of the upcoming loop subscripts, in evaluation order.
UpcomingKeys(version) ==
    IF "pre_release_image" \in DOMAIN version
    THEN <<"version", "python">>
    ELSE <<"image_offer", "image_sku", "version", "python">>

\* The keys of the override the upcoming loop subscripts.
OverrideKeys == <<"offer", "sku">>

\* The first key of keys that d lacks (the KeyError), "" if it has them all.
RECURSIVE FirstMissing(_, _)
FirstMissing(d, keys) ==
    IF keys = <<>> THEN ""
    ELSE IF Head(keys) \notin DOMAIN d THEN Head(keys)
    ELSE FirstMissing(d, Tail(keys))

\* The KeyError building the supported entry of version raises, "" if none.
SupportedError(version) == FirstMissing(version, SupportedKeys)

\* The KeyError building the upcoming entry of version raises, "" if none.
UpcomingError(version) ==
    IF "pre_release_image" \in DOMAIN version
       /\ FirstMissing(version.pre_release_image, OverrideKeys) # ""
    THEN FirstMissing(version.pre_release_image, OverrideKeys)
    ELSE FirstMissing(version, UpcomingKeys(version))

\* Mutant: a missing status counts as active.
SupportedContinueOnError_MissingIsActive(version) ==
    Get(version, "status", "active") # "active"

\* continue_on_error of a supported entry
SupportedContinueOnError(version) == Get(version, "status", "") # "active"

\* continue_on_error of an upcoming entry
UpcomingContinueOnError(version) == TRUE

\* Mutant: the explicit lts label is ignored.
LtsLabel_VersionOnly(version) == version.version

\* ubuntu_lts of an entry
LtsLabel(version) == Get(version, "lts", version.version)

\* The entry the supported loop appends for version.
SupportedEntry(version) ==
    [ubuntu_version    |-> version.version,
     ubuntu_lts        |-> LtsLabel(version),
     image_offer       |-> version.image_offer,
     image_sku         |-> version.image_sku,
     python_expected   |-> version.python,
     continue_on_error |-> SupportedContinueOnError(version)]

\* Mutant: the standard image_offer wins over the override when both are there.
UpcomingImageOffer_StandardFirst(version) ==
    IF "image_offer" \in DOMAIN version
    THEN version.image_offer
    ELSE version.pre_release_image.offer

\* image_offer / image_sku of an upcoming entry
UpcomingImageOffer(version) ==
    IF "pre_release_image" \in DOMAIN version
    THEN version.pre_release_image.offer
    ELSE version.image_offer

UpcomingImageSku(version) ==
    IF "pre_release_image" \in DOMAIN version
    THEN version.pre_release_image.sku
    ELSE version.image_sku

\* The entry the upcoming loop appends for version.
UpcomingEntry(version) ==
    [ubuntu_version    |-> version.version,
     ubuntu_lts        |-> LtsLabel(version),
     image_offer       |-> UpcomingImageOffer(version),
     image_sku         |-> UpcomingImageSku(version),
     python_expected   |-> version.python,
     continue_on_error |-> UpcomingContinueOnError(version)]

\* Mutant: the entry is put in front of the list.
AppendEntry_InFront(m, entry) == <<entry>> \o m

\* matrix.append(entry)
AppendEntry(m, entry) == Append(m, entry)

\* config.get('supported_versions', []) and config.get('upcoming_versions', [])
SupportedVersions(c) == Get(c, "supported_versions", <<>>)
UpcomingVersions(c) == Get(c, "upcoming_versions", <<>>)

InitGen ==
    /\ gpc = "start"
    /\ file_exists \in BOOLEAN
    /\ yaml_ok \in (IF file_exists THEN BOOLEAN ELSE {FALSE})
    /\ include_upcoming \in BOOLEAN
    /\ config \in (IF yaml_ok THEN Configs ELSE {NoConfig})
    /\ matrix = <<>>
    /\ idx = 0
    /\ gen_stdout = <<>>
    /\ gen_stderr = <<>>
    /\ gen_exit = NotExited

\* The except branch of main: the message goes to standard error, exit status 1.
GenFail(message) ==
    /\ gen_stderr' = Append(gen_stderr, message)
    /\ gen_exit' = 1
    /\ gpc' = "exited"

\* if not config_file.exists(): print(..., file=sys.stderr); sys.exit(1)
CheckFile ==
    /\ gpc = "start"
    /\ IF ~file_exists
       THEN /\ GenFail(<<"Error: not found", "">>)
            /\ UNCHANGED <<matrix, idx, gen_stdout>>
       ELSE /\ gpc' = "load"
            /\ UNCHANGED <<matrix, idx, gen_stdout, gen_stderr, gen_exit>>
    /\ UNCHANGED <<file_exists, yaml_ok, config, include_upcoming, mvars>>

\* config = load_ubuntu_versions(config_file); matrix = []
LoadConfig ==
    /\ gpc = "load"
    /\ IF ~yaml_ok
       THEN /\ GenFail(<<"Error generating matrix", "yaml">>)
            /\ UNCHANGED <<matrix, idx, gen_stdout>>
       ELSE /\ gpc' = "supported"
            /\ matrix' = <<>>
            /\ idx' = 0
            /\ UNCHANGED <<gen_stdout, gen_stderr, gen_exit>>
    /\ UNCHANGED <<file_exists, yaml_ok, config, include_upcoming, mvars>>

\* Mutant: a descriptor that raises is skipped and the loop goes on.
SupportedIter_SkipMalformed ==
    /\ gpc = "supported"
    /\ idx < Len(SupportedVersions(config))
    /\ LET version == SupportedVersions(config)[idx + 1] IN
       /\ matrix' = IF SupportedError(version) # ""
                    THEN matrix
                    ELSE AppendEntry(matrix, SupportedEntry(version))
       /\ idx' = idx + 1
    /\ UNCHANGED <<gpc, gen_stderr, gen_exit, file_exists, yaml_ok, config,
                   include_upcoming, gen_stdout, mvars>>

\* One iteration of: for version in config.get('supported_versions', [])
SupportedIter ==
    /\ gpc = "supported"
    /\ idx < Len(SupportedVersions(config))
    /\ LET version == SupportedVersions(config)[idx + 1] IN
       IF SupportedError(version) # ""
       THEN /\ GenFail(<<"Error generating matrix", SupportedError(version)>>)
            /\ UNCHANGED <<matrix, idx>>
       ELSE /\ matrix' = AppendEntry(matrix, SupportedEntry(version))
            /\ idx' = idx + 1
            /\ UNCHANGED <<gpc, gen_stderr, gen_exit>>
    /\ UNCHANGED <<file_exists, yaml_ok, config, include_upcoming, gen_stdout, mvars>>

\* Mutant: the upcoming loop runs whatever the flag says.
SupportedDone_IgnoreFlag ==
    /\ gpc = "supported"
    /\ idx = Len(SupportedVersions(config))
    /\ gpc' = "upcoming"
    /\ idx' = 0
    /\ UNCHANGED <<file_exists, yaml_ok, config, include_upcoming, matrix,
                   gen_stdout, gen_stderr, gen_exit, mvars>>

\* The supported loop is exhausted: if include_upcoming: ...
SupportedDone ==
    /\ gpc = "supported"
    /\ idx = Len(SupportedVersions(config))
    /\ gpc' = IF include_upcoming THEN "upcoming" ELSE "print"
    /\ idx' = 0
    /\ UNCHANGED <<file_exists, yaml_ok, config, include_upcoming, matrix,
                   gen_stdout, gen_stderr, gen_exit, mvars>>

\* One iteration of: for version in config.get('upcoming_versions', [])
UpcomingIter ==
    /\ gpc = "upcoming"
    /\ idx < Len(UpcomingVersions(config))
    /\ LET version == UpcomingVersions(config)[idx + 1] IN
       IF UpcomingError(version) # ""
       THEN /\ GenFail(<<"Error generating matrix", UpcomingError(version)>>)
            /\ UNCHANGED <<matrix, idx>>
       ELSE /\ matrix' = AppendEntry(matrix, UpcomingEntry(version))
            /\ idx' = idx + 1
            /\ UNCHANGED <<gpc, gen_stderr, gen_exit>>
    /\ UNCHANGED <<file_exists, yaml_ok, config, include_upcoming, gen_stdout, mvars>>

\* The upcoming loop is exhausted: return matrix
UpcomingDone ==
    /\ gpc = "upcoming"
    /\ idx = Len(UpcomingVersions(config))
    /\ gpc' = "print"
    /\ UNCHANGED <<file_exists, yaml_ok, config, include_upcoming, matrix, idx,
                   gen_stdout, gen_stderr, gen_exit, mvars>>

\* output = {'include': matrix}; print(json.dumps(output)); main returns
PrintMatrix ==
    /\ gpc = "print"
    /\ gen_stdout' = Append(gen_stdout, [include |-> matrix])
    /\ gen_exit' = 0
    /\ gpc' = "exited"
    /\ UNCHANGED <<file_exists, yaml_ok, config, include_upcoming, matrix, idx,
                   gen_stderr, mvars>>

NextGen ==
    \/ CheckFile
    \/ LoadConfig
    \/ SupportedIter
    \/ SupportedDone
    \/ UpcomingIter
    \/ UpcomingDone
    \/ PrintMatrix

(***************************************************************************)
(* monitor_installation.py                                                 *)
(***************************************************************************)
POLL_INTERVAL == 120
MAX_POLLS == 90

\* Standard output of a command is a string: a sequence of characters.
Whitespace == {" ", "\n"}

Stdouts ==
    { <<>>,
      <<" ">>,
      <<"v", "m">>,
      <<"v", "m", " ", " ", "R", "u", "n", " ", "i", "p", "\n">>,
      <<"v", "m", " ", "S", "t", "o", "p", "\n">> }

\* Exit statuses a command that ran to its end gives.
ExitStatuses == {0, 1}

\* run_command: (returncode, stdout) of one shell invocation.  A command that
\* ran gives its exit status and output; one that timed out gives -1 and one
\* that raised gives -2, both with empty output.
run_command ==
    { [returncode |-> rc, stdout |-> out] : rc \in ExitStatuses, out \in Stdouts }
    \cup { [returncode |-> -1, stdout |-> <<>>],
           [returncode |-> -2, stdout |-> <<>>] }

\* str.split(): the maximal runs of non-whitespace characters of s, in order.
\* word is the run being read, parts the runs already read.
RECURSIVE SplitFrom(_, _, _)
SplitFrom(s, word, parts) ==
    IF s = <<>>
    THEN IF word = <<>> THEN parts ELSE Append(parts, word)
    ELSE IF Head(s) \in Whitespace
         THEN SplitFrom(Tail(s), <<>>,
                        IF word = <<>> THEN parts ELSE Append(parts, word))
         ELSE SplitFrom(Tail(s), Append(word, Head(s)), parts)

Split(s) == SplitFrom(s, <<>>, <<>>)

Unknown == <<"U", "n", "k", "n", "o", "w", "n">>

\* Mutant: the negative codes of a timed-out or failed invocation count as success.
CommandSucceeded_NonPositive(r) == r.returncode <= 0

\* check_installation_complete / check_process_running: returncode == 0
CommandSucceeded(r) == r.returncode = 0

\* get_vm_status: the second word of the output, "Unknown" without one.
get_vm_status(r) ==
    IF r.stdout # <<>>
    THEN LET parts == Split(r.stdout) IN
         IF Len(parts) >= 2 THEN parts[2] ELSE Unknown
    ELSE Unknown

\* A line as log() writes it: timestamp-prefixed, printed and appended to the file.
Logged(message) == [msg |-> message, stamped |-> TRUE, in_file |-> TRUE]

\* A line as a bare print() writes it.
Printed(message) == [msg |-> message, stamped |-> FALSE, in_file |-> FALSE]

\* Mutant: the file is opened with 'w', each call leaves its own line alone.
Log_Truncate(n, message) ==
    /\ out_len' = out_len + n
    /\ log_len' = 1
    /\ last_line' = Logged(message)

\* log(message, log_file), called n times in a row, the last with message.
Log(n, message) ==
    /\ out_len' = out_len + n
    /\ log_len' = log_len + n
    /\ last_line' = Logged(message)

NoLog == UNCHANGED <<out_len, log_len, last_line>>

InitMon ==
    /\ pc = "start"
    /\ poll_count = 0
    /\ installation_complete = FALSE
    /\ result = [returncode |-> 0, stdout |-> <<>>]
    /\ process_running = FALSE
    /\ vm_status = Unknown
    /\ found_at = 0
    /\ n_checks = 0
    /\ n_proc_checks = 0
    /\ n_vm_queries = 0
    /\ sleeps = 0
    /\ log_len = 0
    /\ out_len = 0
    /\ last_line = Printed("")
    /\ state = "POLLING"
    /\ interrupted_at = ""
    /\ crashed_at = ""
    /\ slept = 0
    /\ exit_code = NotExited

\* Lines 74-85: the banner, then poll_count = 0; installation_complete = False
Start ==
    /\ pc = "start"
    /\ Log(7, "banner")
    /\ poll_count' = 0
    /\ installation_complete' = FALSE
    /\ pc' = "while"
    /\ UNCHANGED <<result, process_running, vm_status, found_at, n_checks,
                   n_proc_checks, n_vm_queries, sleeps, state, interrupted_at,
                   exit_code, crashed_at, slept, gvars>>

\* Mutant: the loop condition lets the counter pass the maximum.
LoopCondition_Inclusive == poll_count <= MAX_POLLS

\* Mutant: the loop stops one poll early.
LoopCondition_OffByOne == poll_count + 1 < MAX_POLLS

\* The loop condition
LoopCondition == poll_count < MAX_POLLS

\* Mutant: poll_count =+ 1 for poll_count += 1, the counter stays at 1.
PollBegin_AssignOne ==
    /\ pc = "while"
    /\ LoopCondition
    /\ poll_count' = 1
    /\ Log(1, "poll")
    /\ pc' = "check_complete"
    /\ UNCHANGED <<installation_complete, result, process_running, vm_status,
                   found_at, n_checks, n_proc_checks, n_vm_queries, sleeps,
                   state, interrupted_at, exit_code, crashed_at, slept, gvars>>

\* while poll_count < MAX_POLLS: poll_count += 1; log("Poll #...")
PollBegin ==
    /\ pc = "while"
    /\ LoopCondition
    /\ poll_count' = poll_count + 1
    /\ Log(1, "poll")
    /\ pc' = "check_complete"
    /\ UNCHANGED <<installation_complete, result, process_running, vm_status,
                   found_at, n_checks, n_proc_checks, n_vm_queries, sleeps,
                   state, interrupted_at, exit_code, crashed_at, slept, gvars>>

\* The loop condition is false: the loop is left with installation_complete False.
LoopExit ==
    /\ pc = "while"
    /\ ~LoopCondition
    /\ pc' = "after_loop"
    /\ state' = "TIMED_OUT"
    /\ NoLog
    /\ UNCHANGED <<poll_count, installation_complete, result, process_running,
                   vm_status, found_at, n_checks, n_proc_checks, n_vm_queries,
                   sleeps, interrupted_at, exit_code, crashed_at, slept, gvars>>

\* if check_installation_complete(vm_name):
CheckComplete ==
    /\ pc = "check_complete"
    /\ \E r \in run_command :
          /\ result' = r
          /\ IF CommandSucceeded(r)
             THEN /\ found_at' = poll_count
                  /\ pc' = "mark_complete"
             ELSE /\ found_at' = found_at
                  /\ pc' = "check_process"
    /\ n_checks' = n_checks + 1
    /\ NoLog
    /\ UNCHANGED <<poll_count, installation_complete, process_running, vm_status,
                   n_proc_checks, n_vm_queries, sleeps, state, interrupted_at,
                   exit_code, crashed_at, slept, gvars>>

\* Mutant: no break, the iteration goes on after the marker is found.
MarkComplete_NoBreak ==
    /\ pc = "mark_complete"
    /\ Log(1, "complete")
    /\ installation_complete' = TRUE
    /\ state' = "COMPLETE"
    /\ pc' = "check_process"
    /\ UNCHANGED <<poll_count, result, process_running, vm_status, found_at,
                   n_checks, n_proc_checks, n_vm_queries, sleeps, interrupted_at,
                   exit_code, crashed_at, slept, gvars>>

\* log("Installation COMPLETE!"); installation_complete = True; break
MarkComplete ==
    /\ pc = "mark_complete"
    /\ Log(1, "complete")
    /\ installation_complete' = TRUE
    /\ state' = "COMPLETE"
    /\ pc' = "after_loop"
    /\ UNCHANGED <<poll_count, result, process_running, vm_status, found_at,
                   n_checks, n_proc_checks, n_vm_queries, sleeps, interrupted_at,
                   exit_code, crashed_at, slept, gvars>>

\* Mutant: a session whose provisioning process is gone leaves the loop.
CheckProcess_BreakIfGone ==
    /\ pc = "check_process"
    /\ \E r \in run_command :
          /\ result' = r
          /\ process_running' = CommandSucceeded(r)
          /\ Log(1, IF CommandSucceeded(r) THEN "in_progress" ELSE "not_detected")
          /\ pc' = IF CommandSucceeded(r) THEN "vm_status" ELSE "after_loop"
    /\ n_proc_checks' = n_proc_checks + 1
    /\ UNCHANGED <<poll_count, installation_complete, vm_status, found_at,
                   n_checks, n_vm_queries, sleeps, state, interrupted_at,
                   exit_code, crashed_at, slept, gvars>>

\* if check_process_running(vm_name): log(in progress) else: log(not detected)
CheckProcess ==
    /\ pc = "check_process"
    /\ \E r \in run_command :
          /\ result' = r
          /\ process_running' = CommandSucceeded(r)
          /\ Log(1, IF CommandSucceeded(r) THEN "in_progress" ELSE "not_detected")
    /\ n_proc_checks' = n_proc_checks + 1
    /\ pc' = "vm_status"
    /\ UNCHANGED <<poll_count, installation_complete, vm_status, found_at,
                   n_checks, n_vm_queries, sleeps, state, interrupted_at,
                   exit_code, crashed_at, slept, gvars>>

\* vm_status = get_vm_status(vm_name); log(f"VM Status: {vm_status}")
VmStatus ==
    /\ pc = "vm_status"
    /\ \E r \in run_command :
          /\ result' = r
          /\ vm_status' = get_vm_status(r)
    /\ Log(1, "vm_status")
    /\ n_vm_queries' = n_vm_queries + 1
    /\ pc' = "sleep_test"
    /\ UNCHANGED <<poll_count, installation_complete, process_running, found_at,
                   n_checks, n_proc_checks, sleeps, state, interrupted_at,
                   exit_code, crashed_at, slept, gvars>>

\* Mutant: the sleep is not guarded, the last poll is followed by one too.
SleepCondition_Always == TRUE

\* The condition of the sleep
SleepCondition == poll_count < MAX_POLLS

\* if poll_count < MAX_POLLS: time.sleep(POLL_INTERVAL) is entered
SleepTest ==
    /\ pc = "sleep_test"
    /\ pc' = IF SleepCondition THEN "sleeping" ELSE "while"
    /\ NoLog
    /\ UNCHANGED <<poll_count, installation_complete, result, process_running,
                   vm_status, found_at, n_checks, n_proc_checks, n_vm_queries,
                   sleeps, state, interrupted_at, exit_code, crashed_at, slept, gvars>>

\* time.sleep(POLL_INTERVAL) returns
Sleep ==
    /\ pc = "sleeping"
    /\ sleeps' = sleeps + 1
    /\ slept' = slept + POLL_INTERVAL
    /\ pc' = "while"
    /\ NoLog
    /\ UNCHANGED <<poll_count, installation_complete, result, process_running,
                   vm_status, found_at, n_checks, n_proc_checks, n_vm_queries,
                   state, interrupted_at, exit_code, crashed_at, gvars>>

\* if not installation_complete: log("Maximum polling time reached")
AfterLoop ==
    /\ pc = "after_loop"
    /\ IF ~installation_complete THEN Log(1, "max_reached") ELSE NoLog
    /\ pc' = "final"
    /\ UNCHANGED <<poll_count, installation_complete, result, process_running,
                   vm_status, found_at, n_checks, n_proc_checks, n_vm_queries,
                   sleeps, state, interrupted_at, exit_code, crashed_at, slept, gvars>>

\* Mutant: the status is decided by the poll counter, not by the flag.
ReturnValue_ByPollCount == IF poll_count < MAX_POLLS THEN 0 ELSE 1

\* return 0 if installation_complete else 1
ReturnValue == IF installation_complete THEN 0 ELSE 1

\* The two closing log lines, then sys.exit(main())
Return ==
    /\ pc = "final"
    /\ Log(2, "saved")
    /\ exit_code' = ReturnValue
    /\ pc' = "exited"
    /\ UNCHANGED <<poll_count, installation_complete, result, process_running,
                   vm_status, found_at, n_checks, n_proc_checks, n_vm_queries,
                   sleeps, state, interrupted_at, crashed_at, slept, gvars>>

\* Mutant: an interrupted session exits with success.
InterruptStatus_Success == 1 - 1

\* Exit status of the except KeyboardInterrupt branch
InterruptStatus == 1

\* A KeyboardInterrupt is raised in main, wherever it is (run_command catches
\* Exception, which a KeyboardInterrupt is not), and reaches
\* except KeyboardInterrupt: print(...); sys.exit(1)
Interrupt ==
    /\ pc # "exited"
    /\ interrupted_at' = pc
    /\ out_len' = out_len + 1
    /\ last_line' = Printed("interrupted")
    /\ exit_code' = InterruptStatus
    /\ pc' = "exited"
    /\ UNCHANGED <<poll_count, installation_complete, result, process_running,
                   vm_status, found_at, n_checks, n_proc_checks, n_vm_queries,
                   sleeps, log_len, state, crashed_at, slept, gvars>>

NextMon ==
    \/ Start
    \/ PollBegin
    \/ LoopExit
    \/ CheckComplete
    \/ MarkComplete
    \/ CheckProcess
    \/ VmStatus
    \/ SleepTest
    \/ Sleep
    \/ AfterLoop
    \/ Return
    \/ Interrupt

\* The positions of main whose next step calls log().
LogSteps ==
    {"start", "while", "mark_complete", "check_process", "vm_status",
     "after_loop", "final"}

\* log() raises: print has written the line, open(log_file, 'a') or the write
\* fails (OSError).  Nothing in main or under __main__ catches it, so the
\* process ends with a traceback and exit status 1.  What the step does before
\* its log call (the counter, the remote command) has happened.
LogFailure ==
    /\ pc \in LogSteps
    /\ pc = "while" => LoopCondition
    /\ pc = "after_loop" => ~installation_complete
    /\ poll_count' = IF pc = "while" THEN poll_count + 1 ELSE poll_count
    /\ \E r \in run_command :
          /\ result' = IF pc \in {"check_process", "vm_status"} THEN r ELSE result
          /\ process_running' = IF pc = "check_process"
                                THEN CommandSucceeded(r) ELSE process_running
          /\ vm_status' = IF pc = "vm_status" THEN get_vm_status(r) ELSE vm_status
    /\ n_proc_checks' = IF pc = "check_process"
                        THEN n_proc_checks + 1 ELSE n_proc_checks
    /\ n_vm_queries' = IF pc = "vm_status" THEN n_vm_queries + 1 ELSE n_vm_queries
    /\ out_len' = out_len + 1
    /\ last_line' = [msg |-> "unwritten", stamped |-> TRUE, in_file |-> FALSE]
    /\ crashed_at' = pc
    /\ exit_code' = 1
    /\ pc' = "exited"
    /\ UNCHANGED <<installation_complete, found_at, n_checks, sleeps, slept,
                   log_len, state, interrupted_at, gvars>>

\* The monitor where a log write may fail.
NextMonIO ==
    \/ NextMon
    \/ LogFailure

\* The generator is started in one fixed configuration while the monitor runs.
InitGenIdle ==
    /\ gpc = "start"
    /\ file_exists = FALSE
    /\ yaml_ok = FALSE
    /\ include_upcoming = FALSE
    /\ config = NoConfig
    /\ matrix = <<>>
    /\ idx = 0
    /\ gen_stdout = <<>>
    /\ gen_stderr = <<>>
    /\ gen_exit = NotExited

\* The monitor is idle in its initial state while the generator runs.
InitGenRun == InitGen /\ InitMon

SpecGen == InitGenRun /\ [][NextGen]_vars

\* The monitor runs; the generator stays as it was started.
InitMonRun == InitGenIdle /\ InitMon

SpecMon == InitMonRun /\ [][NextMon]_vars

\* The steps of main: every one but the user's interruption.
MainStep ==
    \/ Start
    \/ PollBegin
    \/ LoopExit
    \/ CheckComplete
    \/ MarkComplete
    \/ CheckProcess
    \/ VmStatus
    \/ SleepTest
    \/ Sleep
    \/ AfterLoop
    \/ Return

\* The monitor where main always gets on: every remote command returns or
\* times out (subprocess.run with timeout) and every sleep ends.  Nothing
\* is assumed about the user's interruption.
SpecMonFair == InitMonRun /\ [][NextMon]_vars /\ WF_vars(MainStep)

\* The monitor with a log file that may fail to be written.
SpecMonIO == InitMonRun /\ [][NextMonIO]_vars

(***************************************************************************)
(* Properties of the matrix generator, checked under SpecGen.              *)
(***************************************************************************)

\* The lists of the configuration document, as written in it.
SupList == IF "supported_versions" \in DOMAIN config
           THEN config.supported_versions ELSE <<>>
UpList == IF "upcoming_versions" \in DOMAIN config
          THEN config.upcoming_versions ELSE <<>>

\* The descriptors a run goes through, in order.
Processed == SupList \o (IF include_upcoming THEN UpList ELSE <<>>)

\* Every list of entries the program holds or has printed.
EntryLists == {matrix} \cup { gen_stdout[k].include : k \in 1..Len(gen_stdout) }

IsActive(d) == "status" \in DOMAIN d /\ d.status = "active"

HasOverride(d) == "pre_release_image" \in DOMAIN d

\* C1: every emitted entry has continue_on_error = TRUE when it comes from an
\* upcoming descriptor, and continue_on_error = (status is not "active", a
\* missing status counting as not active) when it comes from a supported one.
C1_ContinueOnError ==
    \A m \in EntryLists : \A i \in 1..Len(m) :
        IF i <= Len(SupList)
        THEN m[i].continue_on_error = ~IsActive(SupList[i])
        ELSE m[i].continue_on_error = TRUE

\* A run that printed entries of an active supported descriptor, of a supported
\* descriptor without status and of an upcoming descriptor.
C1_Witness ==
    /\ gen_exit = 0
    /\ include_upcoming
    /\ Len(SupList) = 2
    /\ IsActive(SupList[1])
    /\ "status" \notin DOMAIN SupList[2]
    /\ Len(UpList) >= 1
    /\ Len(gen_stdout[1].include) = Len(SupList) + Len(UpList)

\* C2: the output is one entry per supported descriptor in the order of
\* supported_versions, followed (only when include_upcoming) by one entry per
\* upcoming descriptor in the order of upcoming_versions; the i-th entry carries
\* the version of the i-th descriptor of that concatenation.
C2_OrderPreserved ==
    /\ Len(matrix) <= Len(Processed)
    /\ \A i \in 1..Len(matrix) : matrix[i].ubuntu_version = Processed[i].version
    /\ gen_exit = 0 =>
          /\ Len(gen_stdout) = 1
          /\ Len(gen_stdout[1].include) = Len(Processed)
          /\ \A i \in 1..Len(Processed) :
                gen_stdout[1].include[i].ubuntu_version = Processed[i].version

\* A successful run over two different supported and two different upcoming
\* descriptors.
C2_Witness ==
    /\ gen_exit = 0
    /\ include_upcoming
    /\ Len(SupList) = 2
    /\ Len(UpList) = 2
    /\ SupList[1].version # SupList[2].version
    /\ UpList[1].version # UpList[2].version
    /\ Len(gen_stdout[1].include) = 4

\* C3: without the include-upcoming flag the upcoming loop is never entered and
\* the output has exactly the supported descriptors' entries, whatever
\* upcoming_versions holds.
C3_NoUpcomingWithoutFlag ==
    ~include_upcoming =>
        /\ gpc # "upcoming"
        /\ Len(matrix) <= Len(SupList)
        /\ gen_exit = 0 =>
              /\ Len(gen_stdout[1].include) = Len(SupList)
              /\ \A i \in 1..Len(SupList) :
                    gen_stdout[1].include[i].ubuntu_version = SupList[i].version

\* A successful run without the flag over a configuration with upcoming
\* descriptors.
C3_Witness ==
    /\ gen_exit = 0
    /\ ~include_upcoming
    /\ Len(UpList) = MaxLen
    /\ Len(SupList) >= 1
    /\ Len(gen_stdout[1].include) = Len(SupList)

\* C4: an upcoming entry has the override's offer and sku when the descriptor
\* has a pre_release_image and the standard image_offer and image_sku when it
\* has none; a supported entry always has the standard ones.
C4_ImageSelection ==
    \A m \in EntryLists : \A i \in 1..Len(m) :
        LET d == Processed[i] IN
        IF i > Len(SupList) /\ HasOverride(d)
        THEN /\ m[i].image_offer = d.pre_release_image.offer
             /\ m[i].image_sku = d.pre_release_image.sku
        ELSE /\ m[i].image_offer = d.image_offer
             /\ m[i].image_sku = d.image_sku

\* A run that printed a supported entry of a descriptor carrying an override, an
\* upcoming entry with an override and an upcoming entry without one.
C4_Witness ==
    /\ gen_exit = 0
    /\ include_upcoming
    /\ \E i \in 1..Len(SupList) : HasOverride(SupList[i])
    /\ \E j \in 1..Len(UpList) :
          HasOverride(UpList[j]) /\ "image_offer" \in DOMAIN UpList[j]
    /\ \E j \in 1..Len(UpList) : ~HasOverride(UpList[j])

\* The fields building an entry needs and the descriptor lacks.
LacksSupportedField(d) ==
    ~({"version", "image_offer", "image_sku", "python"} \subseteq DOMAIN d)

LacksUpcomingField(d) ==
    \/ ~({"version", "python"} \subseteq DOMAIN d)
    \/ IF HasOverride(d)
       THEN ~({"offer", "sku"} \subseteq DOMAIN d.pre_release_image)
       ELSE ~({"image_offer", "image_sku"} \subseteq DOMAIN d)

\* The runs that fail: no configuration file, a file that does not parse, or a
\* processed descriptor without a field its entry needs.
FailingRun ==
    \/ ~file_exists
    \/ ~yaml_ok
    \/ \E i \in 1..Len(SupList) : LacksSupportedField(SupList[i])
    \/ include_upcoming /\ \E j \in 1..Len(UpList) : LacksUpcomingField(UpList[j])

\* C5: a failing run ends with exit status 1 and nothing on standard output,
\* also when the malformed descriptor comes after well-formed ones; a
\* successful run prints the {"include": [...]} document exactly once and exits 0.
C5_NoPartialOutput ==
    /\ gen_exit # 0 => gen_stdout = <<>>
    /\ gen_exit = 0 => gen_stdout = <<[include |-> matrix]>>
    /\ gpc = "exited" =>
          /\ gen_exit \in {0, 1}
          /\ gen_exit = 1 <=> FailingRun
          /\ gen_exit = 1 => Len(gen_stderr) = 1
          /\ gen_exit = 0 => gen_stderr = <<>>

\* A run that failed on a malformed descriptor after it had built entries.
C5_Witness ==
    /\ gen_exit = 1
    /\ Len(matrix) >= 1
    /\ gen_stdout = <<>>
    /\ gpc = "exited"

(***************************************************************************)
(* Properties of the installation monitor, checked under SpecMon.          *)
(***************************************************************************)

Exited == pc = "exited"
Interrupted == interrupted_at # ""

C9_ProbeFailureContinues ==
    [][ /\ (n_checks' = n_checks + 1 /\ result'.returncode # 0) =>
              /\ pc' = "check_process"
              /\ found_at' = found_at
              /\ ~installation_complete'
              /\ state = "POLLING" /\ state' = "POLLING"
              /\ exit_code' = NotExited
              /\ poll_count' = poll_count
        /\ (n_proc_checks' = n_proc_checks + 1 /\ result'.returncode # 0) =>
              /\ ~process_running'
              /\ last_line' = Logged("not_detected")
              /\ pc' = "vm_status"
              /\ state' = "POLLING"
              /\ exit_code' = NotExited
        /\ (n_vm_queries' = n_vm_queries + 1 /\ result'.returncode # 0) =>
              /\ pc' = "sleep_test"
              /\ state' = "POLLING"
              /\ exit_code' = NotExited
        /\ (pc = "sleeping" /\ ~Interrupted') =>
              /\ pc' = "while"
              /\ poll_count < MAX_POLLS
      ]_vars

\* The second poll goes on after a completion check that timed out, the
\* process check of the first poll having failed too.
C9_Witness ==
    /\ pc = "check_process"
    /\ poll_count = 2
    /\ result.returncode = -1
    /\ ~process_running
    /\ state = "POLLING"
    /\ exit_code = NotExited

\* C10: a user interruption at any point of a running session ends it at once:
\* a warning is printed, the exit status is 1, no poll, command or sleep
\* follows, and a sleep under way is not waited for.
C10_InterruptAborts ==
    /\ [](exit_code = NotExited => ENABLED Interrupt)
    /\ [][ /\ (~Interrupted /\ Interrupted') =>
                 /\ interrupted_at' = pc
                 /\ pc' = "exited"
                 /\ exit_code' = 1
                 /\ out_len' = out_len + 1
                 /\ last_line' = Printed("interrupted")
                 /\ UNCHANGED <<poll_count, n_checks, n_proc_checks,
                                n_vm_queries, sleeps, log_len, state>>
           /\ exit_code # NotExited => UNCHANGED mvars
         ]_vars

\* A session interrupted during the sleep after its second poll.
C10_Witness ==
    /\ Exited
    /\ interrupted_at = "sleeping"
    /\ poll_count = 2
    /\ sleeps = 1
    /\ exit_code = 1

Crashed == crashed_at # ""

\* C12: a session ends only by the poll counter reaching 90 (TIMED_OUT), by the
\* completion marker being found (COMPLETE) or by user interruption; no other
\* event, a step that writes the log included, ends it.
C12_OnlyThreeEndings ==
    Exited => (state = "TIMED_OUT" \/ state = "COMPLETE" \/ Interrupted)

\* C13: for every descriptor, supported or upcoming, the entry's ubuntu_lts is
\* the descriptor's lts label when it has one and the entry's ubuntu_version
\* otherwise.
C13_LtsLabel ==
    \A m \in EntryLists : \A i \in 1..Len(m) :
        LET d == Processed[i] IN
        IF "lts" \in DOMAIN d
        THEN m[i].ubuntu_lts = d.lts
        ELSE m[i].ubuntu_lts = m[i].ubuntu_version

\* A run that printed a supported and an upcoming entry with an lts label, and a
\* supported and an upcoming entry without one.
C13_Witness ==
    /\ gen_exit = 0
    /\ include_upcoming
    /\ Len(gen_stdout[1].include) = 4
    /\ \E i, j \in 1..Len(SupList) :
          "lts" \in DOMAIN SupList[i] /\ "lts" \notin DOMAIN SupList[j]
    /\ \E i, j \in 1..Len(UpList) :
          "lts" \in DOMAIN UpList[i] /\ "lts" \notin DOMAIN UpList[j]

C15_PollCounter ==
    /\ [](/\ poll_count \in 0..MAX_POLLS
          /\ n_checks <= poll_count
          /\ pc = "start" => (poll_count = 0 /\ state = "POLLING"))
    /\ [][ /\ poll_count' = poll_count \/ poll_count' = poll_count + 1
           /\ poll_count' = poll_count + 1 =>
                 /\ pc = "while"
                 /\ pc' = "check_complete"
                 /\ state = "POLLING"
           /\ pc' = "check_complete" => poll_count' = poll_count + 1
           /\ n_checks' # n_checks =>
                 /\ n_checks' = poll_count
                 /\ poll_count \in 1..MAX_POLLS
         ]_vars

\* The completion check of the last poll is about to be issued.
C15_Witness ==
    /\ pc = "check_complete"
    /\ poll_count = MAX_POLLS
    /\ n_checks = MAX_POLLS - 1
    /\ state = "POLLING"

\* C16: between two consecutive polls exactly one sleep of POLL_INTERVAL
\* elapses: while poll n runs the session has slept n-1 times, a session that
\* ends without interruption after n polls has slept n-1 times, and no sleep
\* follows the last poll, be it the completing one or the 90th.
C16_OneSleepBetweenPolls ==
    /\ slept = sleeps * POLL_INTERVAL
    /\ poll_count = 0 => sleeps = 0
    /\ pc \in {"check_complete", "mark_complete", "check_process", "vm_status",
              "sleep_test", "sleeping", "after_loop", "final"}
          => sleeps = poll_count - 1
    /\ pc = "while" /\ poll_count > 0 => sleeps = poll_count \/ poll_count = MAX_POLLS
    /\ pc = "sleeping" => poll_count < MAX_POLLS
    /\ state # "POLLING" => sleeps = poll_count - 1
    /\ Exited /\ ~Interrupted => sleeps = poll_count - 1
    /\ sleeps <= MAX_POLLS - 1

\* A session that timed out without interruption: 90 polls, 89 sleeps.
C16_Witness ==
    /\ Exited
    /\ ~Interrupted
    /\ state = "TIMED_OUT"
    /\ poll_count = MAX_POLLS
    /\ sleeps = MAX_POLLS - 1
    /\ slept = (MAX_POLLS - 1) * POLL_INTERVAL

\* C17: the process check and the VM-status query decide nothing: neither moves
\* the session anywhere but to the next step of the poll, whatever it returns,
\* and the terminal state, the number of polls and the exit code of a session
\* that is not interrupted are given by the outcomes of the completion-marker
\* checks alone (the poll of the first success, or none).
C17_NonAuthoritative ==
    /\ [](Exited /\ ~Interrupted =>
             IF found_at > 0
             THEN /\ state = "COMPLETE"
                  /\ poll_count = found_at
                  /\ exit_code = 0
             ELSE /\ state = "TIMED_OUT"
                  /\ poll_count = MAX_POLLS
                  /\ exit_code = 1)
    /\ [][ /\ n_proc_checks' # n_proc_checks =>
                 /\ pc' = "vm_status"
                 /\ UNCHANGED <<poll_count, installation_complete, found_at,
                                n_checks, sleeps, state, exit_code>>
           /\ n_vm_queries' # n_vm_queries =>
                 /\ pc' = "sleep_test"
                 /\ UNCHANGED <<poll_count, installation_complete, found_at,
                                n_checks, sleeps, state, exit_code>>
         ]_vars

\* A session that completed on its second poll after a first poll that saw no
\* provisioning process and no VM status.
C17_Witness ==
    /\ Exited
    /\ ~Interrupted
    /\ found_at = 2
    /\ ~process_running
    /\ vm_status = Unknown
    /\ state = "COMPLETE"
    /\ exit_code = 0

====
